---- MODULE Spec2Model ----
(***************************************************************************)
(* Behaviour layer of the portfolio page (Frontend/script.js): the theme   *)
(* toggle with its persisted preference, the slide-in menu with its scroll *)
(* lock, the reveal-on-scroll observer, and the wiring done by             *)
(* initializeApp.  Strings that the code formats and parses (the body's    *)
(* top style) are sequences of one-character strings.                      *)
(***************************************************************************)
EXTENDS Integers, Sequences, FiniteSets, TLC

\* ------------------------------------------------------------------ bounds
\* Theme toggle operations counted after one initialisation.
MaxToggles == 4
\* Number of times the ready event may run initializeApp.
MaxInits == 2
\* Largest scroll offset of the page (the document's scrollable height).
MaxScrollY == 12
\* Scroll-animate elements inside #profile, and outside it.
NumHero == 2
NumOther == 1
\* Animation ticks of the cursor loop, and the largest pointer coordinate (px).
MaxTicks == 3
MaxCoord == 1

\* --------------------------------------------------------------- constants
Null == "null"
\* Optional elements of the DOM contract.  The menu overlay stands for the
\* subtree .menu-overlay > .menu-links > a.
Elements == {"themeToggle", "themeIcon", "hamburger", "overlay",
             "customCursor", "cursorDot"}
\* Values the key 'theme' may hold when the page loads.
StoredValues == {Null, "", "light", "dark", "blue"}
\* Event targets that carry listeners.
Targets == {"themeToggle", "hamburger", "overlay", "menuLinks", "link", "keydown"}
HeroEls == 1..NumHero
OtherEls == (NumHero + 1)..(NumHero + NumOther)
Elems == HeroEls \cup OtherEls

VARIABLES
  page,          \* the optional elements present in the document
  stored,        \* localStorage['theme'] (Null when the key is absent)
  dataTheme,     \* data-theme attribute of the document root (Null when absent)
  iconText,      \* textContent of .theme-icon ("html" until the script writes it)
  overlayOpen,   \* .menu-overlay carries 'open'
  iconOpen,      \* .hamburger-icon carries 'open'
  bodyMenuOpen,  \* body carries 'menu-open'
  bodyOverflow,  \* body.style.overflow
  bodyPosition,  \* body.style.position
  bodyWidth,     \* body.style.width
  bodyTop,       \* body.style.top, a sequence of characters
  scrollY,       \* window.scrollY
  listeners,     \* listeners registered with addEventListener, per target, in order
  portfolioApp,  \* window.portfolioApp is set
  luxuryCursor,  \* window.luxuryCursor is set
  scrollAnimationManager, \* window.scrollAnimationManager is set
  ioSupported,   \* 'IntersectionObserver' in window
  observer,      \* ScrollAnimationManager.observer: "null" or "created"
  observed,      \* elements the intersection observer observes
  animated,      \* scroll-animate elements carrying 'animate'
  intersecting,  \* elements currently intersecting the viewport
  heroTimer,     \* the 100 ms settle timer: "none", "pending" or "fired"
  elTimers,      \* hero elements whose staggered timer is pending
  isTouchDevice, \* 'ontouchstart' in window || navigator.maxTouchPoints > 0
  cursorActive,  \* LuxuryCursor.init ran: both cursor elements carry 'active'
  mouse,         \* <<mouseX, mouseY>>, in px
  ring,          \* <<cursorX, cursorY>>, in units of 1/RingScale px
  dot,           \* <<dotX, dotY>>, in units of 1/DotScale px
  transform,     \* positions last written to the two style.transform
  animationFrame,\* LuxuryCursor.animationFrame: 0 for null, else a request id
  pendingFrame,  \* the animation-frame request the browser will run, 0 if none
  frames,        \* requestAnimationFrame calls so far (the last id handed out)
  isHovering,    \* LuxuryCursor.isHovering
  hoverClass,    \* cursor elements carrying 'hover'
  clickClass,    \* cursor elements carrying 'click'
  pointerAt,     \* where the pointer is among the interactive elements
  destroyed,     \* LuxuryCursor.destroy() was called
  inits,         \* number of initializeApp runs so far
  toggles,       \* theme toggles since the last initializeApp
  initStored,    \* value of the key 'theme' read by the last initializeApp
  last           \* the last operation: its name, outcome and the state before it

vars == <<page, stored, dataTheme, iconText, overlayOpen, iconOpen, bodyMenuOpen,
          bodyOverflow, bodyPosition, bodyWidth, bodyTop, scrollY, listeners,
          portfolioApp, luxuryCursor, scrollAnimationManager, ioSupported,
          observer, observed, animated, intersecting, heroTimer, elTimers,
          isTouchDevice, cursorActive, mouse, ring, dot, transform,
          animationFrame, pendingFrame, frames, isHovering, hoverClass,
          clickClass, pointerAt, destroyed,
          inits, toggles, initStored, last>>

themeVars == <<stored, dataTheme, iconText>>
menuVars == <<overlayOpen, iconOpen, bodyMenuOpen, bodyOverflow, bodyPosition,
              bodyWidth, bodyTop, scrollY>>
revealVars == <<observer, observed, animated, heroTimer, elTimers>>
appVars == <<listeners, portfolioApp, luxuryCursor, scrollAnimationManager>>
cursorVars == <<cursorActive, mouse, ring, dot, transform, animationFrame,
                pendingFrame, frames, isHovering, hoverClass, clickClass>>

\* ------------------------------------------------- strings and conversions
Digits == <<"0", "1", "2", "3", "4", "5", "6", "7", "8", "9">>

IsDigit(c) == \E i \in 1..10 : Digits[i] = c

DigitValue(c) == (CHOOSE i \in 1..10 : Digits[i] = c) - 1

\* String(n) for a non-negative integer, as the template literal formats it.
RECURSIVE NumToStr(_)
NumToStr(n) ==
  IF n < 10 THEN <<Digits[n + 1]>>
  ELSE NumToStr(n \div 10) \o <<Digits[(n % 10) + 1]>>

\* `-${scrollY}px`
TopOffset(y) == <<"-">> \o NumToStr(y) \o <<"p", "x">>

\* Value of the longest prefix of digits of s, with acc the value read so far.
RECURSIVE DigitsPrefix(_, _, _)
DigitsPrefix(s, acc, n) ==
  IF s = <<>> \/ ~IsDigit(Head(s)) THEN [val |-> acc, len |-> n]
  ELSE DigitsPrefix(Tail(s), acc * 10 + DigitValue(Head(s)), n + 1)

\* parseInt(s): an optional sign, then decimal digits up to the first other
\* character; NaN when there is no digit.
parseInt(s) ==
  LET neg == s # <<>> /\ Head(s) = "-"
      signed == s # <<>> /\ Head(s) \in {"-", "+"}
      p == DigitsPrefix(IF signed THEN Tail(s) ELSE s, 0, 0)
  IN IF p.len = 0 THEN [nan |-> TRUE, val |-> 0]
     ELSE [nan |-> FALSE, val |-> IF neg THEN 0 - p.val ELSE p.val]

\* x || 'light' on a value read from storage or from the attribute.
OrLight(v) == IF v = Null \/ v = "" THEN "light" ELSE v

\* ------------------------------------------------------------ page state
\* The state the handlers read and write, with the bookkeeping of one call or
\* one event dispatch: writeOk (whether localStorage.setItem succeeds),
\* threw (a handler raised), scrolls (calls of window.scrollTo), stopped
\* (stopPropagation was called), ran (listeners run, in order) and toggled
\* (theme toggles performed).
World(writeOk) ==
  [dataTheme |-> dataTheme, stored |-> stored, iconText |-> iconText,
   overlayOpen |-> overlayOpen, iconOpen |-> iconOpen,
   bodyMenuOpen |-> bodyMenuOpen, bodyOverflow |-> bodyOverflow,
   bodyPosition |-> bodyPosition, bodyWidth |-> bodyWidth, bodyTop |-> bodyTop,
   scrollY |-> scrollY, writeOk |-> writeOk, threw |-> FALSE, scrolls |-> 0,
   stopped |-> FALSE, ran |-> <<>>, toggled |-> 0]

Has(el) == el \in page

\* ------------------------------------------------------------ ThemeManager
ThemeGlyph(theme) == IF theme = "dark" THEN "sun" ELSE "moon"

\* currentTheme === 'dark' ? 'light' : 'dark'
NewTheme(currentTheme) == IF currentTheme = "dark" THEN "light" ELSE "dark"

setTheme(w, theme) == [w EXCEPT !.dataTheme = theme]

\* localStorage.setItem(themeKey, theme); raises when the write fails.
saveTheme(w, theme) ==
  IF w.writeOk THEN [w EXCEPT !.stored = theme] ELSE [w EXCEPT !.threw = TRUE]

updateIcon(w, theme) ==
  IF Has("themeIcon") THEN [w EXCEPT !.iconText = ThemeGlyph(theme)] ELSE w

ThemeManager_init(w) ==
  LET savedTheme == OrLight(w.stored)
  IN updateIcon(setTheme(w, savedTheme), savedTheme)

\* Variant: the direction is taken from the stored value, not the attribute.
ThemeManager_toggleFromStorage(w) ==
  LET currentTheme == OrLight(w.stored)
      newTheme == NewTheme(currentTheme)
      w1 == setTheme(w, newTheme)
      w2 == saveTheme([w1 EXCEPT !.toggled = @ + 1], newTheme)
  IN IF w2.threw THEN w2 ELSE updateIcon(w2, newTheme)

\* Variant: the theme being left is the one persisted.
ThemeManager_toggleSavesOld(w) ==
  LET currentTheme == OrLight(w.dataTheme)
      newTheme == NewTheme(currentTheme)
      w1 == setTheme(w, newTheme)
      w2 == saveTheme([w1 EXCEPT !.toggled = @ + 1], currentTheme)
  IN IF w2.threw THEN w2 ELSE updateIcon(w2, newTheme)

ThemeManager_toggle(w) ==
  LET currentTheme == OrLight(w.dataTheme)
      newTheme == NewTheme(currentTheme)
      w1 == setTheme(w, newTheme)
      w2 == saveTheme([w1 EXCEPT !.toggled = @ + 1], newTheme)
  IN IF w2.threw THEN w2 ELSE updateIcon(w2, newTheme)

\* window.toggleTheme(e): the same steps, written out a second time.
window_toggleTheme(w) ==
  LET w0 == [w EXCEPT !.stopped = TRUE]
      currentTheme == OrLight(w0.dataTheme)
      newTheme == NewTheme(currentTheme)
      w1 == [w0 EXCEPT !.dataTheme = newTheme, !.toggled = @ + 1]
      w2 == IF w1.writeOk THEN [w1 EXCEPT !.stored = newTheme]
            ELSE [w1 EXCEPT !.threw = TRUE]
  IN IF w2.threw THEN w2
     ELSE IF Has("themeIcon") THEN [w2 EXCEPT !.iconText = ThemeGlyph(newTheme)]
     ELSE w2

initializeTheme(w) ==
  LET savedTheme == OrLight(w.stored)
      w1 == [w EXCEPT !.dataTheme = savedTheme]
  IN IF Has("themeIcon") THEN [w1 EXCEPT !.iconText = ThemeGlyph(savedTheme)]
     ELSE w1

\* ------------------------------------------------------------- MenuManager
\* window.scrollTo(0, y): NaN scrolls to 0; the offset is clamped to the page.
scrollTo(w, y) ==
  LET to == IF y.nan \/ y.val < 0 THEN 0
            ELSE IF y.val > MaxScrollY THEN MaxScrollY ELSE y.val
  IN [w EXCEPT !.scrollY = to, !.scrolls = @ + 1]

\* Variant: the sign of the parsed offset is kept.
NegatedOffsetKeepsSign(top) == parseInt(IF top = <<>> THEN <<"0">> ELSE top)

\* parseInt(scrollY || '0') * -1
NegatedOffset(top) ==
  LET n == parseInt(IF top = <<>> THEN <<"0">> ELSE top)
  IN [nan |-> n.nan, val |-> 0 - n.val]

\* A body with position 'fixed' is out of the flow: nothing is left to scroll
\* and the window's offset is 0 until scrollTo restores it.
LockedLayout(w) ==
  IF w.bodyPosition = "fixed" THEN [w EXCEPT !.scrollY = 0] ELSE w

MenuManager_open(w) ==
  IF ~Has("overlay") \/ ~Has("hamburger") THEN w
  ELSE LockedLayout(
         [w EXCEPT !.overlayOpen = TRUE, !.iconOpen = TRUE,
                   !.bodyMenuOpen = TRUE, !.bodyOverflow = "hidden",
                   !.bodyPosition = "fixed", !.bodyWidth = "100%",
                   !.bodyTop = TopOffset(w.scrollY)])

MenuManager_close(w) ==
  LET top == w.bodyTop
      w1 == [w EXCEPT !.overlayOpen = IF Has("overlay") THEN FALSE ELSE @,
                      !.iconOpen = IF Has("hamburger") THEN FALSE ELSE @,
                      !.bodyMenuOpen = FALSE, !.bodyOverflow = "",
                      !.bodyPosition = "", !.bodyWidth = "", !.bodyTop = <<>>]
  IN IF top # <<>> THEN scrollTo(w1, NegatedOffset(top)) ELSE w1

MenuManager_toggle(w) ==
  IF ~Has("overlay") \/ ~Has("hamburger") THEN w
  ELSE IF w.overlayOpen THEN MenuManager_close(w) ELSE MenuManager_open(w)

\* Variant: the close branch leaves body.style.position as it is.
window_toggleMenuKeepsPosition(w) ==
  LET w0 == [w EXCEPT !.stopped = TRUE]
  IN IF ~Has("overlay") \/ ~Has("hamburger") THEN w0
     ELSE IF w0.overlayOpen
          THEN [w0 EXCEPT !.overlayOpen = FALSE, !.iconOpen = FALSE,
                          !.bodyMenuOpen = FALSE, !.bodyOverflow = "",
                          !.bodyWidth = ""]
          ELSE LockedLayout(
                 [w0 EXCEPT !.overlayOpen = TRUE, !.iconOpen = TRUE,
                            !.bodyMenuOpen = TRUE, !.bodyOverflow = "hidden",
                            !.bodyPosition = "fixed", !.bodyWidth = "100%",
                            !.bodyTop = TopOffset(w0.scrollY)])

\* window.toggleMenu(e): its close branch resets overflow, position, width and
\* height, and neither body.style.top nor the scroll offset.
window_toggleMenu(w) ==
  LET w0 == [w EXCEPT !.stopped = TRUE]
  IN IF ~Has("overlay") \/ ~Has("hamburger") THEN w0
     ELSE IF w0.overlayOpen
          THEN [w0 EXCEPT !.overlayOpen = FALSE, !.iconOpen = FALSE,
                          !.bodyMenuOpen = FALSE, !.bodyOverflow = "",
                          !.bodyPosition = "", !.bodyWidth = ""]
          ELSE LockedLayout(
                 [w0 EXCEPT !.overlayOpen = TRUE, !.iconOpen = TRUE,
                            !.bodyMenuOpen = TRUE, !.bodyOverflow = "hidden",
                            !.bodyPosition = "fixed", !.bodyWidth = "100%",
                            !.bodyTop = TopOffset(w0.scrollY)])

window_handleMenuLink(w) ==
  LET top == w.bodyTop
      w1 == [w EXCEPT !.overlayOpen = IF Has("overlay") THEN FALSE ELSE @,
                      !.iconOpen = IF Has("hamburger") THEN FALSE ELSE @,
                      !.bodyMenuOpen = FALSE, !.bodyOverflow = "",
                      !.bodyPosition = "", !.bodyWidth = "", !.bodyTop = <<>>]
  IN IF top # <<>> THEN scrollTo(w1, NegatedOffset(top)) ELSE w1

\* --------------------------------------------------- listeners and dispatch
NoListeners == [t \in Targets |-> <<>>]

\* The body of each listener the script registers; ev is [target, key].
Handle(h, w, ev) ==
  CASE h = "setup.theme" -> window_toggleTheme([w EXCEPT !.stopped = TRUE])
    [] h = "app.theme" -> ThemeManager_toggle(w)
    [] h = "setup.hamburger" -> window_toggleMenu([w EXCEPT !.stopped = TRUE])
    [] h = "app.hamburger" -> MenuManager_toggle(w)
    [] h = "setup.overlay" ->
         IF ev.target = "overlay"
         THEN window_toggleMenu([w EXCEPT !.stopped = TRUE]) ELSE w
    [] h = "app.overlay" -> MenuManager_close(w)
    [] h = "app.menuLinks" -> [w EXCEPT !.stopped = TRUE]
    [] h = "setup.link" -> window_handleMenuLink(w)
    [] h = "setup.keydown" ->
         IF ev.key = "Escape" /\ Has("overlay") /\ w.overlayOpen
         THEN window_toggleMenu(w) ELSE w
    [] OTHER -> w

\* All listeners of one node run, in registration order, also after one of them
\* called stopPropagation or raised.
RECURSIVE RunListeners(_, _, _)
RunListeners(hs, w, ev) ==
  IF hs = <<>> THEN w
  ELSE RunListeners(Tail(hs),
                    Handle(Head(hs), [w EXCEPT !.ran = Append(@, Head(hs))], ev),
                    ev)

\* The event visits the nodes of path, target first, until a listener has
\* stopped its propagation.
RECURSIVE Dispatch(_, _, _)
Dispatch(path, w, ev) ==
  IF path = <<>> THEN w
  ELSE LET w1 == RunListeners(listeners[Head(path)], w, ev)
       IN IF w1.stopped THEN w1 ELSE Dispatch(Tail(path), w1, ev)

\* The nodes with listeners from a click's target up to the document.
ClickPath(target) ==
  CASE target = "link" -> <<"link", "menuLinks", "overlay">>
    [] target = "menuLinks" -> <<"menuLinks", "overlay">>
    [] OTHER -> <<target>>

\* ------------------------------------------------------- initialisation
\* setupThemeButton: the button is replaced by a clone, which carries none of
\* the listeners added before, and the clone gets one listener.
setupThemeButton(ls) ==
  IF Has("themeToggle") THEN [ls EXCEPT !["themeToggle"] = <<"setup.theme">>]
  ELSE ls

setupMenuButton(ls) ==
  LET l1 == IF Has("hamburger")
            THEN [ls EXCEPT !["hamburger"] = Append(@, "setup.hamburger")] ELSE ls
      l2 == IF Has("overlay")
            THEN [l1 EXCEPT !["overlay"] = Append(@, "setup.overlay")] ELSE l1
      l3 == [l2 EXCEPT !["keydown"] = Append(@, "setup.keydown")]
  IN IF Has("overlay") THEN [l3 EXCEPT !["link"] = Append(@, "setup.link")]
     ELSE l3

\* Variant: no listener on .menu-links stops the propagation.
attachEventListenersNoContainment(ls) ==
  LET l1 == IF Has("themeToggle")
            THEN [ls EXCEPT !["themeToggle"] = Append(@, "app.theme")] ELSE ls
      l2 == IF Has("hamburger")
            THEN [l1 EXCEPT !["hamburger"] = Append(@, "app.hamburger")] ELSE l1
  IN IF Has("overlay")
     THEN [l2 EXCEPT !["overlay"] = Append(@, "app.overlay")] ELSE l2

\* PortfolioApp.attachEventListeners
attachEventListeners(ls) ==
  LET l1 == IF Has("themeToggle")
            THEN [ls EXCEPT !["themeToggle"] = Append(@, "app.theme")] ELSE ls
      l2 == IF Has("hamburger")
            THEN [l1 EXCEPT !["hamburger"] = Append(@, "app.hamburger")] ELSE l1
      l3 == IF Has("overlay")
            THEN [l2 EXCEPT !["overlay"] = Append(@, "app.overlay")] ELSE l2
  IN IF Has("overlay") THEN [l3 EXCEPT !["menuLinks"] = Append(@, "app.menuLinks")]
     ELSE l3

\* Variant: the fallback branch does not return.
ScrollAnimationManager_initNoReturn(r) ==
  LET r0 == IF ~ioSupported THEN [r EXCEPT !.animated = @ \cup Elems] ELSE r
  IN [r0 EXCEPT !.observer = "created",
                !.observed = @ \cup Elems,
                !.heroTimer = IF HeroEls # {} THEN "pending" ELSE @]

\* ScrollAnimationManager.init, on the reveal state
\* [observer, observed, animated, heroTimer, elTimers].
ScrollAnimationManager_init(r) ==
  IF ~ioSupported
  THEN [r EXCEPT !.animated = @ \cup Elems]
  ELSE [r EXCEPT !.observer = "created",
                 !.observed = @ \cup Elems,
                 !.heroTimer = IF HeroEls # {} THEN "pending" ELSE @]

Reveal ==
  [observer |-> observer, observed |-> observed, animated |-> animated,
   heroTimer |-> heroTimer, elTimers |-> elTimers]

\* Variant: an entry that is not intersecting takes the marker away again.
ObserverCallbackRehides(r, entries) ==
  LET hit == {e.target : e \in {x \in entries : x.isIntersecting}}
      out == {e.target : e \in {x \in entries : ~x.isIntersecting}}
  IN [r EXCEPT !.animated = (@ \cup hit) \ out, !.observed = @ \ hit]

\* The observer callback: entries is a set of [target, isIntersecting].
ObserverCallback(r, entries) ==
  LET hit == {e.target : e \in {x \in entries : x.isIntersecting}}
  IN [r EXCEPT !.animated = @ \cup hit, !.observed = @ \ hit]

\* Variant: the element with index 0 gets no timer.
HeroSettleTimerSkipsFirst(r) ==
  [r EXCEPT !.heroTimer = "fired", !.elTimers = HeroEls \ {1}]

\* The settle timer (100 ms) schedules one timer per hero element.
HeroSettleTimer(r) == [r EXCEPT !.heroTimer = "fired", !.elTimers = HeroEls]

\* The staggered timer of hero element el (index * 100 ms).
HeroElementTimer(r, el) ==
  [r EXCEPT !.animated = @ \cup {el}, !.elTimers = @ \ {el}]

Range(f) == {f[i] : i \in DOMAIN f}

\* ------------------------------------------------------------ LuxuryCursor
\* cursorLerp = 0.12 = 3/25 and dotLerp = 0.35 = 7/20.
CursorLerpNum == 3
CursorLerpDen == 25
DotLerpNum == 7
DotLerpDen == 20

RECURSIVE Pow(_, _)
Pow(b, n) == IF n = 0 THEN 1 ELSE b * Pow(b, n - 1)

\* Positions are exact fractions: with at most MaxTicks ticks every value the
\* loop computes is a whole number of 1/RingScale (1/DotScale) px.
RingScale == Pow(CursorLerpDen, MaxTicks)
DotScale == Pow(DotLerpDen, MaxTicks)

CursorEls == {"customCursor", "cursorDot"}

\* Variant: the difference is divided by the factor.
LerpDivides(pos, target, num, den) == pos + ((target - pos) * den) \div num

\* pos += (target - pos) * num/den
Lerp(pos, target, num, den) == pos + ((target - pos) * num) \div den

\* The cursor object's fields and what it wrote to the two elements.
Cursor ==
  [active |-> cursorActive, mouse |-> mouse, ring |-> ring, dot |-> dot,
   transform |-> transform, animationFrame |-> animationFrame,
   pendingFrame |-> pendingFrame, frames |-> frames,
   isHovering |-> isHovering, hoverClass |-> hoverClass,
   clickClass |-> clickClass]

\* Variant: the handle of the first request is kept and never updated.
LuxuryCursor_animateKeepsFirstHandle(c) ==
  LET r == <<Lerp(c.ring[1], c.mouse[1] * RingScale, CursorLerpNum, CursorLerpDen),
             Lerp(c.ring[2], c.mouse[2] * RingScale, CursorLerpNum, CursorLerpDen)>>
      d == <<Lerp(c.dot[1], c.mouse[1] * DotScale, DotLerpNum, DotLerpDen),
             Lerp(c.dot[2], c.mouse[2] * DotScale, DotLerpNum, DotLerpDen)>>
      id == c.frames + 1
  IN [c EXCEPT !.ring = r, !.dot = d,
               !.transform = [ring |-> r, dot |-> d],
               !.frames = id, !.pendingFrame = id,
               !.animationFrame = IF @ = 0 THEN id ELSE @]

\* One tick: ease both points, write both transforms, request the next frame.
LuxuryCursor_animate(c) ==
  LET r == <<Lerp(c.ring[1], c.mouse[1] * RingScale, CursorLerpNum, CursorLerpDen),
             Lerp(c.ring[2], c.mouse[2] * RingScale, CursorLerpNum, CursorLerpDen)>>
      d == <<Lerp(c.dot[1], c.mouse[1] * DotScale, DotLerpNum, DotLerpDen),
             Lerp(c.dot[2], c.mouse[2] * DotScale, DotLerpNum, DotLerpDen)>>
      id == c.frames + 1
  IN [c EXCEPT !.ring = r, !.dot = d,
               !.transform = [ring |-> r, dot |-> d],
               !.frames = id, !.pendingFrame = id, !.animationFrame = id]

\* init(): shows the elements, registers the listeners, runs the first tick.
LuxuryCursor_init(c) ==
  IF isTouchDevice THEN c
  ELSE LuxuryCursor_animate([c EXCEPT !.active = TRUE])

\* new LuxuryCursor()
LuxuryCursor_constructor(c) ==
  LET c0 == [c EXCEPT !.mouse = <<0, 0>>, !.ring = <<0, 0>>, !.dot = <<0, 0>>,
                      !.isHovering = FALSE, !.animationFrame = 0]
  IN IF ~isTouchDevice /\ Has("customCursor") /\ Has("cursorDot")
     THEN LuxuryCursor_init(c0) ELSE c0

\* cancelAnimationFrame(id) removes the request with that id, if it is pending.
LuxuryCursor_destroy(c) ==
  IF c.animationFrame # 0
  THEN [c EXCEPT !.pendingFrame = IF @ = c.animationFrame THEN 0 ELSE @]
  ELSE c

\* The mouseenter and mouseleave listeners of an interactive element.
mouseenter(c) == [c EXCEPT !.isHovering = TRUE, !.hoverClass = CursorEls]

mouseleave(c) == [c EXCEPT !.isHovering = FALSE, !.hoverClass = {}]

\* Interactive elements under the pointer, outermost first: "inner" is an
\* interactive element inside the interactive element "outer".
PointerPlaces == {"outside", "outer", "inner", "single"}

Chain(place) ==
  CASE place = "outer" -> <<"outer">>
    [] place = "inner" -> <<"outer", "inner">>
    [] place = "single" -> <<"single">>
    [] OTHER -> <<>>

\* mouseleave fires on every element the pointer has left and mouseenter on
\* every element it has entered; neither bubbles.
RECURSIVE Repeat(_, _, _)
Repeat(n, c, enter) ==
  IF n = 0 THEN c
  ELSE Repeat(n - 1, IF enter THEN mouseenter(c) ELSE mouseleave(c), enter)

PointerEvents(c, from, to) ==
  LET left == {e \in Range(Chain(from)) : e \notin Range(Chain(to))}
      entered == {e \in Range(Chain(to)) : e \notin Range(Chain(from))}
  IN Repeat(Cardinality(entered), Repeat(Cardinality(left), c, FALSE), TRUE)

SetCursor(c) ==
  /\ cursorActive' = c.active
  /\ mouse' = c.mouse
  /\ ring' = c.ring
  /\ dot' = c.dot
  /\ transform' = c.transform
  /\ animationFrame' = c.animationFrame
  /\ pendingFrame' = c.pendingFrame
  /\ frames' = c.frames
  /\ isHovering' = c.isHovering
  /\ hoverClass' = c.hoverClass
  /\ clickClass' = c.clickClass

\* ----------------------------------------------------------------- state
SetWorld(w) ==
  /\ dataTheme' = w.dataTheme
  /\ stored' = w.stored
  /\ iconText' = w.iconText
  /\ overlayOpen' = w.overlayOpen
  /\ iconOpen' = w.iconOpen
  /\ bodyMenuOpen' = w.bodyMenuOpen
  /\ bodyOverflow' = w.bodyOverflow
  /\ bodyPosition' = w.bodyPosition
  /\ bodyWidth' = w.bodyWidth
  /\ bodyTop' = w.bodyTop
  /\ scrollY' = w.scrollY

SetReveal(r) ==
  /\ observer' = r.observer
  /\ observed' = r.observed
  /\ animated' = r.animated
  /\ heroTimer' = r.heroTimer
  /\ elTimers' = r.elTimers

\* What the last operation was, how it ended, and the state it started from.
\* openAt is the offset at which MenuManager.open() opened a closed menu when
\* that call is the last operation or the one right before a
\* MenuManager.close(); -1 otherwise.
Record(op, w) ==
  last' = [op |-> op, threw |-> w.threw, scrolls |-> w.scrolls, ran |-> w.ran,
           preTheme |-> dataTheme, preStored |-> stored,
           preOpen |-> overlayOpen, preScroll |-> scrollY, preTop |-> bodyTop,
           openAt |->
             IF op = "MenuManager.open" /\ ~overlayOpen
                /\ Has("overlay") /\ Has("hamburger")
             THEN scrollY
             ELSE IF op = "MenuManager.close" /\ last.op = "MenuManager.open"
             THEN last.openAt ELSE 0 - 1]

\* A call or dispatch that ends in world w.
Step(op, w) ==
  /\ toggles + w.toggled <= MaxToggles
  /\ SetWorld(w)
  /\ toggles' = toggles + w.toggled
  /\ Record(op, w)
  /\ UNCHANGED <<page, appVars, ioSupported, revealVars, intersecting, inits,
                 initStored, isTouchDevice, cursorVars, pointerAt, destroyed>>

Init ==
  /\ page \in SUBSET Elements
  /\ stored \in StoredValues
  /\ dataTheme = Null
  /\ iconText = "html"
  /\ overlayOpen = FALSE
  /\ iconOpen = FALSE
  /\ bodyMenuOpen = FALSE
  /\ bodyOverflow = ""
  /\ bodyPosition = ""
  /\ bodyWidth = ""
  /\ bodyTop = <<>>
  /\ scrollY = 0
  /\ listeners = NoListeners
  /\ portfolioApp = FALSE
  /\ luxuryCursor = FALSE
  /\ scrollAnimationManager = FALSE
  /\ ioSupported \in BOOLEAN
  /\ observer = "null"
  /\ observed = {}
  /\ animated = {}
  /\ intersecting \in SUBSET Elems
  /\ heroTimer = "none"
  /\ elTimers = {}
  /\ isTouchDevice \in BOOLEAN
  /\ cursorActive = FALSE
  /\ mouse = <<0, 0>>
  /\ ring = <<0, 0>>
  /\ dot = <<0, 0>>
  /\ transform = "none"
  /\ animationFrame = 0
  /\ pendingFrame = 0
  /\ frames = 0
  /\ isHovering = FALSE
  /\ hoverClass = {}
  /\ clickClass = {}
  /\ pointerAt = "outside"
  /\ destroyed = FALSE
  /\ inits = 0
  /\ toggles = 0
  /\ initStored = Null
  /\ last = [op |-> "load", threw |-> FALSE, scrolls |-> 0, ran |-> <<>>,
             preTheme |-> Null, preStored |-> stored, preOpen |-> FALSE,
             preScroll |-> 0, preTop |-> <<>>, openAt |-> 0 - 1]

\* initializeApp, run by the ready event.
InitializeApp ==
  /\ inits < MaxInits
  /\ LET w0 == initializeTheme(World(TRUE))
         w == IF portfolioApp THEN w0 ELSE ThemeManager_init(w0)
         l0 == setupMenuButton(setupThemeButton(listeners))
         ls == IF portfolioApp THEN l0 ELSE attachEventListeners(l0)
         r == IF scrollAnimationManager THEN Reveal
              ELSE ScrollAnimationManager_init(Reveal)
         c == IF luxuryCursor THEN Cursor ELSE LuxuryCursor_constructor(Cursor)
     IN /\ SetWorld(w)
        /\ SetCursor(c)
        /\ listeners' = ls
        /\ SetReveal(r)
        /\ Record("initializeApp", w)
  /\ portfolioApp' = TRUE
  /\ luxuryCursor' = TRUE
  /\ scrollAnimationManager' = TRUE
  /\ inits' = inits + 1
  /\ toggles' = 0
  /\ initStored' = stored
  /\ UNCHANGED <<page, ioSupported, intersecting, isTouchDevice, pointerAt,
                 destroyed>>

\* ------------------------------------------------------------ theme actions
\* themeManager.toggle(), called on window.portfolioApp.
CallThemeManagerToggle ==
  /\ portfolioApp
  /\ \E ok \in BOOLEAN : Step("ThemeManager.toggle", ThemeManager_toggle(World(ok)))

\* window.toggleTheme(), as an inline handler calls it.
CallToggleTheme ==
  \E ok \in BOOLEAN : Step("window.toggleTheme", window_toggleTheme(World(ok)))

\* A click on the theme button.
ClickThemeToggle ==
  /\ Has("themeToggle")
  /\ \E ok \in BOOLEAN :
       Step("click.themeToggle",
            Dispatch(ClickPath("themeToggle"), World(ok),
                     [target |-> "themeToggle", key |-> ""]))

\* Another tab of the same origin toggles its theme and writes the key.
OtherTabWrites ==
  /\ \E v \in {"light", "dark"} :
       /\ v # stored
       /\ Step("storage", [World(TRUE) EXCEPT !.stored = v])

\* ------------------------------------------------------------- menu actions
\* Calls on window.portfolioApp.menuManager.
CallMenuOpen ==
  /\ portfolioApp
  /\ Step("MenuManager.open", MenuManager_open(World(TRUE)))

CallMenuClose ==
  /\ portfolioApp
  /\ Step("MenuManager.close", MenuManager_close(World(TRUE)))

CallMenuToggle ==
  /\ portfolioApp
  /\ Step("MenuManager.toggle", MenuManager_toggle(World(TRUE)))

\* The global functions, as inline handlers call them.
CallToggleMenu == Step("window.toggleMenu", window_toggleMenu(World(TRUE)))

CallHandleMenuLink == Step("window.handleMenuLink", window_handleMenuLink(World(TRUE)))

ClickHamburger ==
  /\ Has("hamburger")
  /\ Step("click.hamburger",
          Dispatch(ClickPath("hamburger"), World(TRUE),
                   [target |-> "hamburger", key |-> ""]))

\* A click on the overlay itself, outside the links.
ClickBackdrop ==
  /\ Has("overlay")
  /\ Step("click.overlay",
          Dispatch(ClickPath("overlay"), World(TRUE),
                   [target |-> "overlay", key |-> ""]))

\* A click on a link inside .menu-links.
ClickMenuLink ==
  /\ Has("overlay")
  /\ Step("click.link",
          Dispatch(ClickPath("link"), World(TRUE),
                   [target |-> "link", key |-> ""]))

KeyDown ==
  \E k \in {"Escape", "Enter"} :
    Step("keydown." \o k,
         Dispatch(<<"keydown">>, World(TRUE), [target |-> "document", key |-> k]))

\* The user scrolls the page; a locked body cannot be scrolled.
UserScroll ==
  /\ bodyPosition # "fixed"
  /\ \E y \in 0..MaxScrollY :
       /\ y # scrollY
       /\ Step("scroll", [World(TRUE) EXCEPT !.scrollY = y])

\* ----------------------------------------------------------- reveal actions
RevealStep(op, r) ==
  /\ SetReveal(r)
  /\ Record(op, World(TRUE))
  /\ UNCHANGED <<page, themeVars, menuVars, appVars, ioSupported, inits,
                 toggles, initStored, isTouchDevice, cursorVars, pointerAt,
                 destroyed>>

\* An element enters or leaves the viewport.
ViewportChange ==
  /\ \E el \in Elems :
       intersecting' = IF el \in intersecting THEN intersecting \ {el}
                       ELSE intersecting \cup {el}
  /\ RevealStep("viewport", Reveal)

\* The observer delivers a batch of entries for observed elements.
IntersectionCallback ==
  /\ observer = "created"
  /\ \E S \in SUBSET observed :
       /\ S # {}
       /\ RevealStep("observer",
            ObserverCallback(Reveal,
              {[target |-> el, isIntersecting |-> el \in intersecting] : el \in S}))
  /\ UNCHANGED intersecting

HeroSettleTimerFires ==
  /\ heroTimer = "pending"
  /\ RevealStep("settleTimer", HeroSettleTimer(Reveal))
  /\ UNCHANGED intersecting

\* Timers with a shorter delay fire first.
HeroElementTimerFires ==
  /\ elTimers # {}
  /\ LET el == CHOOSE e \in elTimers : \A o \in elTimers : e <= o
     IN RevealStep("heroTimer", HeroElementTimer(Reveal, el))
  /\ UNCHANGED intersecting

\* ----------------------------------------------------------- cursor actions
CursorStep(op, c) ==
  /\ SetCursor(c)
  /\ Record(op, World(TRUE))
  /\ UNCHANGED <<page, themeVars, menuVars, appVars, ioSupported, revealVars,
                 intersecting, inits, toggles, initStored, isTouchDevice>>

\* mousemove on the document; the listener exists once init() has run.
MouseMove ==
  /\ cursorActive
  /\ \E x \in 0..MaxCoord, y \in 0..MaxCoord :
       /\ <<x, y>> # mouse
       /\ CursorStep("mousemove", [Cursor EXCEPT !.mouse = <<x, y>>])
  /\ UNCHANGED <<pointerAt, destroyed>>

\* The browser runs the pending animation-frame request.
AnimationFrameFires ==
  /\ pendingFrame # 0
  /\ frames < MaxTicks
  /\ CursorStep("animationFrame",
                LuxuryCursor_animate([Cursor EXCEPT !.pendingFrame = 0]))
  /\ UNCHANGED <<pointerAt, destroyed>>

\* window.luxuryCursor.destroy()
CallDestroy ==
  /\ luxuryCursor
  /\ CursorStep("LuxuryCursor.destroy", LuxuryCursor_destroy(Cursor))
  /\ destroyed' = TRUE
  /\ UNCHANGED pointerAt

\* The pointer moves to another place among the interactive elements.
PointerMoves ==
  /\ \E to \in PointerPlaces :
       /\ to # pointerAt
       /\ pointerAt' = to
       /\ CursorStep("pointer",
            IF cursorActive THEN PointerEvents(Cursor, pointerAt, to) ELSE Cursor)
  /\ UNCHANGED destroyed

MouseDown ==
  /\ cursorActive
  /\ CursorStep("mousedown", [Cursor EXCEPT !.clickClass = CursorEls])
  /\ UNCHANGED <<pointerAt, destroyed>>

MouseUp ==
  /\ cursorActive
  /\ CursorStep("mouseup", [Cursor EXCEPT !.clickClass = {}])
  /\ UNCHANGED <<pointerAt, destroyed>>

\* -------------------------------------------------------- specifications
\* A page with every optional element, for the parts a specification leaves
\* at rest.
FullPage == page = Elements
RevealAtRest == ioSupported /\ intersecting = HeroEls
ThemeAtRest == stored = Null
CursorAtRest == isTouchDevice /\ CursorEls \subseteq page

InitTheme ==
  Init /\ {"hamburger", "overlay"} \subseteq page /\ RevealAtRest /\ CursorAtRest

NextTheme ==
  \/ InitializeApp
  \/ CallThemeManagerToggle
  \/ CallToggleTheme
  \/ ClickThemeToggle
  \/ OtherTabWrites

SpecTheme == InitTheme /\ [][NextTheme]_vars

InitMenu ==
  /\ Init /\ {"themeToggle", "themeIcon"} \subseteq page
  /\ ThemeAtRest /\ RevealAtRest /\ CursorAtRest

NextMenu ==
  \/ InitializeApp
  \/ CallMenuOpen
  \/ CallMenuClose
  \/ CallMenuToggle
  \/ CallToggleMenu
  \/ CallHandleMenuLink
  \/ ClickHamburger
  \/ ClickBackdrop
  \/ ClickMenuLink
  \/ KeyDown
  \/ UserScroll

SpecMenu == InitMenu /\ [][NextMenu]_vars

InitReveal == Init /\ FullPage /\ ThemeAtRest /\ CursorAtRest

NextReveal ==
  \/ InitializeApp
  \/ ViewportChange
  \/ IntersectionCallback
  \/ HeroSettleTimerFires
  \/ HeroElementTimerFires

SpecReveal == InitReveal /\ [][NextReveal]_vars

\* The cursor loop: every combination of touch capability and cursor elements.
InitCursor ==
  /\ Init /\ (Elements \ CursorEls) \subseteq page
  /\ ThemeAtRest /\ RevealAtRest

NextCursor ==
  \/ InitializeApp
  \/ MouseMove
  \/ AnimationFrameFires
  \/ CallDestroy

SpecCursor == InitCursor /\ [][NextCursor]_vars

NextHover ==
  \/ InitializeApp
  \/ PointerMoves
  \/ MouseDown
  \/ MouseUp

SpecHover == InitCursor /\ [][NextHover]_vars

\* Timers that were scheduled fire; nothing is assumed of the observer.
SpecRevealTimers ==
  /\ InitReveal
  /\ [][NextReveal]_vars
  /\ WF_vars(HeroSettleTimerFires)
  /\ WF_vars(HeroElementTimerFires)

\* ----------------------------------------------------------------- claims
ToggleOps == {"ThemeManager.toggle", "window.toggleTheme"}
BodyLocked == bodyPosition = "fixed" /\ bodyOverflow = "hidden" /\ bodyMenuOpen
BodyUnlocked == bodyPosition = "" /\ bodyOverflow = "" /\ ~bodyMenuOpen

\* C1: after a page was initialised with no persisted theme, N theme toggles
\* (ThemeManager.toggle and window.toggleTheme in any mix) leave the displayed
\* theme light when N is even and dark when N is odd.
C1_ToggleParity ==
  (inits > 0 /\ initStored = Null) =>
    dataTheme = IF toggles % 2 = 0 THEN "light" ELSE "dark"

C1_Witness ==
  /\ inits > 0 /\ initStored = Null
  /\ toggles = 3 /\ dataTheme = "dark"
  /\ last.op = "ThemeManager.toggle" /\ last.preStored # last.preTheme

\* C2: right after every completed theme toggle (a direct call, or the toggles
\* a click on the button runs) the value stored under 'theme' equals the
\* displayed data-theme, also when the two differed before it.
C2_ToggleSyncsStorage ==
  /\ (last.op \in ToggleOps /\ ~last.threw) => stored = dataTheme
  /\ (last.op = "click.themeToggle" /\ last.ran # <<>> /\ ~last.threw) =>
       stored = dataTheme

C2_Witness ==
  /\ last.op \in ToggleOps /\ ~last.threw
  /\ last.preTheme \in {"light", "dark"} /\ last.preStored \in {"light", "dark"}
  /\ last.preStored # last.preTheme
  /\ stored = dataTheme

\* C3: every transition of the menu from open to closed scrolls the window
\* back to the offset recorded at open exactly once and clears body.style.top,
\* so that the top style is empty in every closed state.
C3_CloseRestoresScroll ==
  /\ ~overlayOpen => bodyTop = <<>>
  /\ (last.preOpen /\ ~overlayOpen) =>
       /\ last.scrolls = 1
       /\ scrollY = NegatedOffset(last.preTop).val

\* C4: with overlay and icon present and the menu closed at offset s,
\* MenuManager.open() followed directly by MenuManager.close() leaves the
\* window scrolled to s.
C4_OpenCloseRoundTrip ==
  (last.op = "MenuManager.close" /\ last.openAt >= 0) => scrollY = last.openAt

C4_Witness ==
  /\ last.op = "MenuManager.close" /\ last.openAt >= 10
  /\ scrollY = last.openAt /\ last.scrolls = 1 /\ ~overlayOpen

\* C5: in every state with the menu closed, MenuManager.close() and
\* window.handleMenuLink do not throw and leave the scroll position as it was.
C5_CloseWhenClosedKeepsScroll ==
  (last.op \in {"MenuManager.close", "window.handleMenuLink"} /\ ~last.preOpen) =>
    (~last.threw /\ last.scrolls = 0 /\ scrollY = last.preScroll)

\* C6: the overlay carries 'open' exactly when the body is locked (position
\* 'fixed', overflow 'hidden', class 'menu-open'), no part of the lock is left
\* on a closed menu, and the hamburger icon carries 'open' exactly when the
\* overlay does.
C6_OpenIffLocked ==
  /\ overlayOpen => BodyLocked
  /\ ~overlayOpen => BodyUnlocked
  /\ iconOpen <=> overlayOpen

C6_Witness ==
  /\ overlayOpen /\ iconOpen /\ BodyLocked
  /\ last.op = "MenuManager.toggle" /\ last.preTop # <<>> /\ ~last.preOpen

\* C7: after initializeApp, a click on a link inside .menu-links runs the
\* link's own handler, which closes the menu, and none of the click listeners
\* registered on the overlay.
C7_LinkClickContained ==
  (last.op = "click.link" /\ inits > 0) =>
    /\ "setup.link" \in Range(last.ran)
    /\ Range(last.ran) \cap Range(listeners["overlay"]) = {}
    /\ ~overlayOpen

C7_Witness ==
  /\ last.op = "click.link" /\ inits > 0
  /\ last.preOpen /\ ~overlayOpen
  /\ {"setup.overlay", "app.overlay"} \subseteq Range(listeners["overlay"])
  /\ "setup.link" \in Range(last.ran)

\* C8: every scroll-animate element that carries 'animate' is no longer
\* observed, whichever way the marker was set.
C8_AnimatedUnobserved == animated \cap observed = {}

\* C9: the 'animate' marker is monotonic: no step removes it from an element.
C9_AnimateMonotonic == [][animated \subseteq animated']_vars

\* An element revealed by the observer has left the viewport and keeps the
\* marker.
C9_Witness ==
  /\ last.op = "viewport"
  /\ \E el \in OtherEls : el \in animated /\ el \notin intersecting

\* C10: without IntersectionObserver, ScrollAnimationManager.init marks every
\* scroll-animate element, creates no observer, observes nothing and
\* schedules no timer.
C10_FallbackMarksAll ==
  (scrollAnimationManager /\ ~ioSupported) =>
    /\ animated = Elems
    /\ observer = "null"
    /\ observed = {}
    /\ heroTimer = "none" /\ elTimers = {}

C10_Witness ==
  /\ last.op = "initializeApp" /\ inits = 1
  /\ scrollAnimationManager /\ ~ioSupported
  /\ animated = Elems /\ Elems # {}


\* C11: with IntersectionObserver supported, once ScrollAnimationManager.init
\* has run every scroll-animate element inside #profile eventually carries
\* 'animate', whether or not an intersection callback is ever delivered,
\* provided scheduled timers fire.
C11_HeroEventuallyAnimated ==
  (scrollAnimationManager /\ ioSupported) ~> (HeroEls \subseteq animated)

\* The timers alone marked the hero elements: nothing was unobserved.
C11_Witness ==
  /\ ioSupported /\ scrollAnimationManager
  /\ HeroEls # {} /\ HeroEls \subseteq animated
  /\ observed = Elems /\ heroTimer = "fired" /\ elTimers = {}
  /\ last.op = "heroTimer"

\* C12: after theme initialisation the displayed theme is the stored value
\* when that is 'light' or 'dark' and 'light' when the key is absent or holds
\* any other string; the icon shows the sun for dark and the moon otherwise.
C12_InitShowsRecognisedTheme ==
  last.op = "initializeApp" =>
    /\ dataTheme = IF initStored \in {"light", "dark"} THEN initStored ELSE "light"
    /\ Has("themeIcon") => iconText = IF dataTheme = "dark" THEN "sun" ELSE "moon"

\* C13: when the storage write fails during a theme toggle, the toggle does
\* not raise, the displayed theme flips and the icon shows the new theme.
C13_ToggleSurvivesWriteFailure ==
  last.op \in ToggleOps =>
    /\ ~last.threw
    /\ dataTheme = NewTheme(OrLight(last.preTheme))
    /\ Has("themeIcon") => iconText = ThemeGlyph(dataTheme)

\* C14: running initializeApp again changes nothing: each control carries the
\* listeners it has after a single run, and each manager exists once.
C14_InitIdempotent ==
  inits >= 1 =>
    /\ listeners = attachEventListeners(setupMenuButton(setupThemeButton(NoListeners)))
    /\ portfolioApp /\ luxuryCursor /\ scrollAnimationManager

\* C17: after one initializeApp, a click on the hamburger changes the menu
\* state once: a closed menu is open after the dispatch, an open one closed.
C17_HamburgerClickTogglesOnce ==
  (last.op = "click.hamburger" /\ inits = 1 /\ Has("overlay")) =>
    overlayOpen = ~last.preOpen

\* C18: after one initializeApp, a click on the theme button flips the
\* displayed theme once, and the stored value equals the displayed one.
C18_ThemeClickFlipsOnce ==
  (last.op = "click.themeToggle" /\ inits = 1 /\ ~last.threw) =>
    /\ dataTheme = NewTheme(OrLight(last.preTheme))
    /\ stored = dataTheme

\* C15: LuxuryCursor.destroy() may be called in any state.  When the loop was
\* never started it changes nothing and does not throw; when the loop runs,
\* no request is pending after it, so no further tick executes and no
\* transform is written again.
C15_DestroyStopsLoop ==
  /\ [](destroyed => pendingFrame = 0)
  /\ [][destroyed => (frames' = frames /\ transform' = transform)]_vars
  /\ [][(last'.op = "LuxuryCursor.destroy" /\ ~cursorActive) =>
          (UNCHANGED cursorVars /\ ~last'.threw)]_vars

\* The loop had run for several ticks when it was destroyed.
C15_Witness ==
  /\ last.op = "LuxuryCursor.destroy" /\ destroyed
  /\ cursorActive /\ frames >= 3 /\ animationFrame = frames
  /\ pendingFrame = 0

Abs(n) == IF n < 0 THEN 0 - n ELSE n

\* The tick moved pos to pos2 toward target t without crossing it, leaving
\* (den - num)/den of the distance.
Eases(pos, pos2, t, num, den) ==
  LET d == t - pos
      d2 == t - pos2
  IN /\ d >= 0 => (0 <= d2 /\ d2 <= d)
     /\ d <= 0 => (d <= d2 /\ d2 <= 0)
     /\ d # 0 => Abs(d2) < Abs(d)
     /\ d2 * den = d * (den - num)

\* C16: every animate tick moves each coordinate of the ring and of the dot
\* toward the pointer position it reads, never across it: the sign of pointer
\* minus position does not flip and its magnitude shrinks by the factor
\* 1 - lerp, so both positions converge to a stationary pointer.
C16_TickEasesTowardPointer ==
  [][frames' = frames + 1 =>
       \A i \in 1..2 :
         /\ Eases(ring[i], ring'[i], mouse[i] * RingScale,
                  CursorLerpNum, CursorLerpDen)
         /\ Eases(dot[i], dot'[i], mouse[i] * DotScale, DotLerpNum, DotLerpDen)]_vars

\* A tick moved both points part of the way to a pointer that had not moved
\* since the tick before.
C16_Witness ==
  /\ last.op = "animationFrame" /\ frames >= 3
  /\ \E i \in 1..2 :
       /\ mouse[i] > 0
       /\ 0 < ring[i] /\ ring[i] < mouse[i] * RingScale
       /\ ring[i] < dot[i] * (RingScale \div DotScale + 1)
       /\ 0 < dot[i] /\ dot[i] < mouse[i] * DotScale
       /\ ring[i] * CursorLerpDen * CursorLerpDen
            = mouse[i] * RingScale
              * (CursorLerpDen * CursorLerpDen
                 - (CursorLerpDen - CursorLerpNum) * (CursorLerpDen - CursorLerpNum))

\* C19: while the cursor follower is active, after the mouseenter and
\* mouseleave events of a pointer move both cursor elements carry 'hover'
\* exactly when the pointer is inside at least one interactive element,
\* nested interactive elements included.
C19_HoverIffInside ==
  (cursorActive /\ last.op = "pointer") =>
    /\ hoverClass \in {{}, CursorEls}
    /\ hoverClass = CursorEls <=> pointerAt # "outside"

====
